---- MODULE Spec2Model ----
(***************************************************************************)
(* Model of app.py: the CV matcher script.  One run of the script is a     *)
(* straight line of blocking calls to external services; the program       *)
(* counter pc records the statement the run has reached.  An uncaught      *)
(* exception ends the run (pc = "aborted").                                *)
(*                                                                         *)
(* Text is a sequence of one-character strings.  Similarities are fixed    *)
(* point numbers in units of 1/SimScale, percentages in hundredths of a    *)
(* percent (match_pct = 8485 stands for 84.85).                            *)
(***************************************************************************)
EXTENDS Integers, Sequences, FiniteSets, TLC

(* ------------------------------ bounds --------------------------------- *)
\* largest first coordinate of the vectors the embedder returns in a run
MaxCoord == 1
\* both coordinates of the vectors the scoring arithmetic is checked on
MaxWide == 3
\* length of the list the job search may return
MaxLive == 1

(* --------------------------- text primitives --------------------------- *)
UpperChars == <<"A","B","C","D","E","F","G","H","I","J","K","L","M",
                "N","O","P","Q","R","S","T","U","V","W","X","Y","Z">>
LowerChars == <<"a","b","c","d","e","f","g","h","i","j","k","l","m",
                "n","o","p","q","r","s","t","u","v","w","x","y","z">>
DigitChars == {"0","1","2","3","4","5","6","7","8","9"}
SpaceChars == {" ", "\t", "\n"}

IndexIn(c, s) == CHOOSE k \in 1..Len(s) : s[k] = c
UpperSet == {UpperChars[k] : k \in 1..Len(UpperChars)}
LowerSet == {LowerChars[k] : k \in 1..Len(LowerChars)}
LowerOf == [c \in UpperSet |-> LowerChars[IndexIn(c, UpperChars)]]
UpperOf == [c \in LowerSet |-> UpperChars[IndexIn(c, LowerChars)]]
IsUpper(c) == c \in UpperSet
IsLower(c) == c \in LowerSet
IsAlpha(c) == IsUpper(c) \/ IsLower(c)
LowerChar(c) == IF IsUpper(c) THEN LowerOf[c] ELSE c
UpperChar(c) == IF IsLower(c) THEN UpperOf[c] ELSE c

\* str.lower()
Lower(s) == [k \in 1..Len(s) |-> LowerChar(s[k])]
\* str.title(): a cased character is upper case after an uncased one
Title(s) == [k \in 1..Len(s) |->
               IF k = 1 \/ ~IsAlpha(s[k-1]) THEN UpperChar(s[k]) ELSE LowerChar(s[k])]

RECURSIVE LStrip(_)
LStrip(s) == IF s # <<>> /\ Head(s) \in SpaceChars THEN LStrip(Tail(s)) ELSE s
RECURSIVE RStrip(_)
RStrip(s) == IF s # <<>> /\ s[Len(s)] \in SpaceChars
             THEN RStrip(SubSeq(s, 1, Len(s) - 1)) ELSE s
\* str.strip()
Strip(s) == RStrip(LStrip(s))

\* str.split("\n")
RECURSIVE SplitLines(_)
SplitLines(s) ==
  IF \E k \in 1..Len(s) : s[k] = "\n"
  THEN LET k == CHOOSE j \in 1..Len(s) : s[j] = "\n" /\ \A h \in 1..(j-1) : s[h] # "\n"
       IN <<SubSeq(s, 1, k - 1)>> \o SplitLines(SubSeq(s, k + 1, Len(s)))
  ELSE <<s>>

\* the bullet character U+2022, kept as one symbol
Bullet == "<U+2022>"
\* re.sub of the class [-, bullet, 0-9] by the empty string
IsRoleNoise(c) == c \in ({"-", Bullet} \cup DigitChars)
KeepRoleChar(c) == ~IsRoleNoise(c)
ReSubRole(r) == SelectSeq(r, KeepRoleChar)

(* ----------------------- role keywords (lines 149-151) ----------------- *)
MinRoleLen == 3
MaxRoleLen == 40
DefaultKeyword == <<"d","a","t","a"," ","s","c","i","e","n","t","i","s","t">>

Roles(raw_keywords) ==
  LET lines == SplitLines(Strip(raw_keywords))
  IN [k \in 1..Len(lines) |-> Strip(ReSubRole(lines[k]))]
IsValidRole(r) == MinRoleLen <= Len(r) /\ Len(r) <= MaxRoleLen
ValidRoles(raw_keywords) == SelectSeq(Roles(raw_keywords), IsValidRole)
SearchKeyword(raw_keywords) ==
  IF ValidRoles(raw_keywords) # <<>> THEN Lower(ValidRoles(raw_keywords)[1])
  ELSE DefaultKeyword

(* ----------------------------- job postings ---------------------------- *)
\* an f-string: the literal template and the value substituted for {}
FStr(fmt, arg) == [fmt |-> fmt, arg |-> arg]

fetch_dummy_jobs(keyword) ==
  << [title |-> FStr("{} at TechCorp", Title(keyword)), location |-> "Remote",
      description |-> FStr("Join us as a {}.", keyword),
      url |-> "https://example.com/job1"],
     [title |-> FStr("{} Specialist", Title(keyword)), location |-> "New York",
      description |-> FStr("We're looking for a {} expert.", keyword),
      url |-> "https://example.com/job2"],
     [title |-> FStr("Lead {}", Title(keyword)), location |-> "London",
      description |-> FStr("Lead our {} division.", keyword),
      url |-> "https://example.com/job3"] >>

\* what the comprehension of fetch_adzuna_jobs builds from the n-th result
LivePosting(n) ==
  [title |-> FStr("{}", <<"J">>), location |-> "Auckland",
   description |-> FStr("{}", <<"x">>),
   url |-> IF n = 1 THEN "https://adzuna/1" ELSE "https://adzuna/n"]

\* the lists the search can give: none, or its first results
LiveResults == {[k \in 1..n |-> LivePosting(k)] : n \in 0..MaxLive}

(* ------------------------- external text answers ----------------------- *)
\* completions the summarizer can return; it can be empty or blank
CvSummaries == {"", "   ", "Experienced Python data scientist"}
\* completions the role prompt can return
KeywordAnswers ==
  { <<"-"," ","A","I","\n","-"," ","M","L"," ","D","e","v","\n">>,
    <<"1","2","\n",Bullet," ","o","k">> }

(* ------------------------------ arithmetic ----------------------------- *)
Min(a, b) == IF a <= b THEN a ELSE b
Abs(a) == IF a < 0 THEN -a ELSE a

\* floor of the square root, by bisection on lo <= root < hi
RECURSIVE ISqrtIn(_, _, _)
ISqrtIn(n, lo, hi) ==
  IF hi - lo <= 1 THEN lo
  ELSE LET mid == (lo + hi) \div 2
       IN IF mid * mid <= n THEN ISqrtIn(n, mid, hi) ELSE ISqrtIn(n, lo, mid)
ISqrt(n) == ISqrtIn(n, 0, 46340)

\* similarities are kept to four decimals
SimScale == 100 * 100
Dot(a, b) == a[1] * b[1] + a[2] * b[2]
\* sklearn normalises each row by its norm and takes a norm of 0 as 1, so a
\* zero vector stays zero and its similarity to anything is 0
SqNorm(a) == IF Dot(a, a) = 0 THEN 1 ELSE Dot(a, a)
\* cosine_similarity([a], [b])[0][0]: dot / (|a| |b|), the product of the
\* norms cut to three decimals (the fourth decimal of the result can be one
\* too high)
cosine_similarity(a, b) ==
  LET norms == ISqrt(SqNorm(a) * SqNorm(b) * 1000000)
      d == Dot(a, b)
      q == (Abs(d) * 1000 * SimScale) \div norms
  IN IF d < 0 THEN -q ELSE q

\* round(x, 2) of x given in thousandths, to hundredths: to the nearest, a
\* tie to the even neighbour
Round2(x) ==
  LET q == x \div 10
      r == x % 10
  IN IF r < 5 THEN q
     ELSE IF r > 5 THEN q + 1
     ELSE IF q % 2 = 0 THEN q ELSE q + 1

\* the variant without the boost (factor 1.0)
inflated_match_unboosted(raw) == Min(raw * 10, 10 * SimScale)
\* the boost 1.2, in tenths
BoostTenths == 12
\* min(raw_match * 1.2, 1.0), in units of 1 / (10 * SimScale)
inflated_match(raw) == Min(raw * BoostTenths, 10 * SimScale)
\* round(inflated_match * 100, 2), in hundredths of a percent
match_pct(raw) == Round2(inflated_match(raw))

\* the alert tried for every entry
ShouldAlertAlways(match) == TRUE
\* match >= 50
AlertThreshold == 5000
ShouldAlert(match) == match >= AlertThreshold

(* -------------------------------- sorting ------------------------------ *)
\* sorted(..., key=match_pct, reverse=True) is stable: an entry goes after
\* every entry whose key is at least its own
\* an insertion that puts an entry before the entries of equal key
RECURSIVE InsertDescBeforeEqual(_, _)
InsertDescBeforeEqual(e, s) ==
  IF s = <<>> THEN <<e>>
  ELSE IF Head(s).match_pct > e.match_pct
       THEN <<Head(s)>> \o InsertDescBeforeEqual(e, Tail(s))
  ELSE <<e>> \o s
RECURSIVE InsertDesc(_, _)
InsertDesc(e, s) ==
  IF s = <<>> THEN <<e>>
  ELSE IF Head(s).match_pct >= e.match_pct THEN <<Head(s)>> \o InsertDesc(e, Tail(s))
  ELSE <<e>> \o s
RECURSIVE SortedDesc(_)
SortedDesc(s) ==
  IF s = <<>> THEN <<>>
  ELSE InsertDesc(s[Len(s)], SortedDesc(SubSeq(s, 1, Len(s) - 1)))

(* --------------------------------- state ------------------------------- *)
VARIABLES
  pc,              \* the statement the run has reached
  uploaded_file,   \* whether a file is uploaded
  pressed,         \* a button has returned True in this run
  cv_summary, search_keyword, jobs,
  cv_vec, job_vec, raw_match,
  unsorted,        \* job_matches as built by the loop, before line 177
  job_matches,
  i,               \* position of the render loop (1-based)
  alerts,          \* the calls of send_whatsapp_alert so far
  ui               \* what the page shows: warnings, successes, the exception

vars == <<pc, uploaded_file, pressed, cv_summary, search_keyword, jobs, cv_vec,
          job_vec, raw_match, unsorted, job_matches, i, alerts, ui>>

NoVec == <<0, 0>>
\* the embedder's answers: a few directions, the zero vector among them
Vecs == {<<x, y>> : x \in (-1)..MaxCoord, y \in 0..1}
WideVecs == {<<x, y>> : x \in (-MaxWide)..MaxWide, y \in (-MaxWide)..MaxWide}

Show(kind, text) == [kind |-> kind, text |-> text]

Init ==
  /\ pc = "start"
  /\ uploaded_file = FALSE
  /\ pressed = FALSE
  /\ cv_summary = ""
  /\ search_keyword = <<>>
  /\ jobs = <<>>
  /\ cv_vec = NoVec
  /\ job_vec = NoVec
  /\ raw_match = 0
  /\ unsorted = <<>>
  /\ job_matches = <<>>
  /\ i = 0
  /\ alerts = <<>>
  /\ ui = <<>>

\* an exception nothing catches: the page shows it and the run ends
Raise(what) ==
  /\ pc' = "aborted"
  /\ ui' = Append(ui, Show("exception", what))

(* ----------------------------- the run's steps ------------------------- *)
\* line 133-135: without an upload the script does nothing more
Upload ==
  /\ pc = "start"
  /\ \E f \in BOOLEAN :
       /\ uploaded_file' = f
       /\ pc' = IF f THEN "read_cv" ELSE "done"
  /\ UNCHANGED <<pressed, cv_summary, search_keyword, jobs, cv_vec, job_vec,
                 raw_match, unsorted, job_matches, i, alerts, ui>>

\* lines 136-138: extract the text, ask for the summary; neither is caught
ReadCV ==
  /\ pc = "read_cv"
  /\ \/ Raise("extract_text_from_pdf") /\ UNCHANGED cv_summary
     \/ Raise("ask_deepseek") /\ UNCHANGED cv_summary
     \/ \E answer \in CvSummaries :
          /\ cv_summary' = answer
          /\ pc' = "keywords"
          /\ UNCHANGED ui
  /\ UNCHANGED <<uploaded_file, pressed, search_keyword, jobs, cv_vec, job_vec,
                 raw_match, unsorted, job_matches, i, alerts>>

\* lines 148-153
ExtractKeywords ==
  /\ pc = "keywords"
  /\ \/ Raise("ask_deepseek") /\ UNCHANGED search_keyword
     \/ \E raw_keywords \in KeywordAnswers :
          /\ search_keyword' = SearchKeyword(raw_keywords)
          /\ pc' = "fetch"
          /\ UNCHANGED ui
  /\ UNCHANGED <<uploaded_file, pressed, cv_summary, jobs, cv_vec, job_vec,
                 raw_match, unsorted, job_matches, i, alerts>>

\* what happens inside fetch_adzuna_jobs: an exception, or the results
AdzunaOutcomes ==
  {[raised |-> TRUE, results |-> <<>>]}
    \cup {[raised |-> FALSE, results |-> r] : r \in LiveResults}
fetch_adzuna_jobs(outcome) == IF outcome.raised THEN <<>> ELSE outcome.results

\* line 162
FetchJobs ==
  /\ pc = "fetch"
  /\ \E outcome \in AdzunaOutcomes : jobs' = fetch_adzuna_jobs(outcome)
  /\ pc' = "fallback"
  /\ UNCHANGED <<uploaded_file, pressed, cv_summary, search_keyword, cv_vec,
                 job_vec, raw_match, unsorted, job_matches, i, alerts, ui>>

\* the search result used as it is
JobsWithoutFallback(found, keyword) == found
\* lines 163-165
JobsOrFallback(found, keyword) ==
  IF found = <<>> THEN fetch_dummy_jobs(keyword) ELSE found
NoLiveJobs == Show("warning", "No live jobs found, showing fallback examples.")
Fallback ==
  /\ pc = "fallback"
  /\ jobs' = JobsOrFallback(jobs, search_keyword)
  /\ ui' = IF jobs = <<>> THEN Append(ui, NoLiveJobs) ELSE ui
  /\ pc' = "embed"
  /\ UNCHANGED <<uploaded_file, pressed, cv_summary, search_keyword, cv_vec,
                 job_vec, raw_match, unsorted, job_matches, i, alerts>>

\* lines 167-170: load the model and embed the summary (not caught); the
\* summary is embedded whatever it holds
EmbedCV ==
  /\ pc = "embed"
  /\ \/ Raise("SentenceTransformer") /\ UNCHANGED <<cv_vec, job_matches, unsorted>>
     \/ \E v \in Vecs :
          /\ cv_vec' = v
          /\ job_matches' = <<>>
          /\ unsorted' = <<>>
          /\ pc' = IF jobs = <<>> THEN "cv_score" ELSE "score"
          /\ UNCHANGED ui
  /\ UNCHANGED <<uploaded_file, pressed, cv_summary, search_keyword, jobs,
                 job_vec, raw_match, i, alerts>>

\* lines 172-175: one entry of job_matches
Entry(job, raw) == [job |-> job, match_pct |-> match_pct(raw)]
\* the sort without reverse=True
RankedAscending(matches) ==
  [k \in 1..Len(matches) |-> SortedDesc(matches)[Len(matches) + 1 - k]]
\* line 177
Ranked(matches) == SortedDesc(matches)

\* lines 171-177: one turn of the scoring loop on the vector the embedder
\* returns for the job; the last turn is followed by the sort
ScoreJobFrom(vectors) ==
  /\ pc = "score"
  /\ Len(job_matches) < Len(jobs)
  /\ \/ Raise("embedder.encode")
        /\ UNCHANGED <<job_vec, raw_match, unsorted, job_matches, i>>
     \/ \E v \in vectors :
          LET job == jobs[Len(job_matches) + 1]
              raw == cosine_similarity(cv_vec, v)
              built == Append(job_matches, Entry(job, raw))
              last == Len(built) = Len(jobs)
          IN /\ job_vec' = v
             /\ raw_match' = raw
             /\ unsorted' = built
             /\ job_matches' = IF last THEN Ranked(built) ELSE built
             /\ pc' = IF last THEN "reason" ELSE "score"
             /\ i' = IF last THEN 1 ELSE i
             /\ UNCHANGED ui
  /\ UNCHANGED <<uploaded_file, pressed, cv_summary, search_keyword, jobs,
                 cv_vec, alerts>>
ScoreJob == ScoreJobFrom(Vecs)

\* the render loop moves to the next entry, or on to the CV score
NextEntry ==
  IF i < Len(job_matches) THEN pc' = "reason" /\ i' = i + 1
  ELSE pc' = "cv_score" /\ UNCHANGED i

\* lines 184-191: the header, the description and the reasoning (not caught)
Reason ==
  /\ pc = "reason"
  /\ \/ Raise("ask_deepseek")
     \/ /\ ui' = Append(ui, Show("success", "reasoning"))
        /\ pc' = "tailor"
  /\ UNCHANGED <<uploaded_file, pressed, cv_summary, search_keyword, jobs,
                 cv_vec, job_vec, raw_match, unsorted, job_matches, i, alerts>>

\* lines 193-202: a button returns True only in the run its press started,
\* so at most one does in a run; the other buttons' values are not used
Tailor ==
  /\ pc = "tailor"
  /\ \/ /\ ~pressed
        /\ pressed' = TRUE
        /\ \/ Raise("ask_deepseek")
           \/ Raise("generate_pdf")
           \/ /\ ui' = Append(ui, Show("download", "Tailored_CV.pdf"))
              /\ pc' = "alert"
     \/ /\ pc' = "alert"
        /\ UNCHANGED <<pressed, ui>>
  /\ UNCHANGED <<uploaded_file, cv_summary, search_keyword, jobs, cv_vec,
                 job_vec, raw_match, unsorted, job_matches, i, alerts>>

AlertSent == Show("success", "WhatsApp alert sent!")
AlertFailed == Show("warning", "WhatsApp failed")

\* the alert without its try/except
AlertUncaught ==
  /\ pc = "alert"
  /\ IF ShouldAlert(job_matches[i].match_pct)
     THEN /\ alerts' = Append(alerts, [rank |-> i, entry |-> job_matches[i]])
          /\ \/ ui' = Append(ui, AlertSent) /\ NextEntry
             \/ Raise("send_whatsapp_alert") /\ UNCHANGED i
     ELSE UNCHANGED <<alerts, ui>> /\ NextEntry
  /\ UNCHANGED <<uploaded_file, pressed, cv_summary, search_keyword, jobs,
                 cv_vec, job_vec, raw_match, unsorted, job_matches>>

\* lines 204-209: the alert is tried when match >= 50; its failure is caught
\* and shown as a warning
Alert ==
  /\ pc = "alert"
  /\ IF ShouldAlert(job_matches[i].match_pct)
     THEN /\ alerts' = Append(alerts, [rank |-> i, entry |-> job_matches[i]])
          /\ \/ ui' = Append(ui, AlertSent)
             \/ ui' = Append(ui, AlertFailed)
     ELSE UNCHANGED <<alerts, ui>>
  /\ NextEntry
  /\ UNCHANGED <<uploaded_file, pressed, cv_summary, search_keyword, jobs,
                 cv_vec, job_vec, raw_match, unsorted, job_matches>>

\* lines 211-213 (not caught)
CvScore ==
  /\ pc = "cv_score"
  /\ \/ Raise("ask_deepseek")
     \/ /\ ui' = Append(ui, Show("markdown", "score_response"))
        /\ pc' = "qa"
  /\ UNCHANGED <<uploaded_file, pressed, cv_summary, search_keyword, jobs,
                 cv_vec, job_vec, raw_match, unsorted, job_matches, i, alerts>>

\* lines 215-226: with a question, two more completions (not caught)
Question ==
  /\ pc = "qa"
  /\ \/ pc' = "done" /\ UNCHANGED ui
     \/ Raise("ask_deepseek")
     \/ /\ ui' = Append(ui, Show("markdown", "reply"))
        /\ pc' = "done"
  /\ UNCHANGED <<uploaded_file, pressed, cv_summary, search_keyword, jobs,
                 cv_vec, job_vec, raw_match, unsorted, job_matches, i, alerts>>

\* any interaction with the page runs the script again from the top
Rerun ==
  /\ pc \in {"done", "aborted"}
  /\ pc' = "start"
  /\ uploaded_file' = FALSE
  /\ pressed' = FALSE
  /\ cv_summary' = ""
  /\ search_keyword' = <<>>
  /\ jobs' = <<>>
  /\ cv_vec' = NoVec
  /\ job_vec' = NoVec
  /\ raw_match' = 0
  /\ unsorted' = <<>>
  /\ job_matches' = <<>>
  /\ i' = 0
  /\ alerts' = <<>>
  /\ ui' = <<>>

Next ==
  \/ Upload
  \/ ReadCV
  \/ ExtractKeywords
  \/ FetchJobs
  \/ Fallback
  \/ EmbedCV
  \/ ScoreJob
  \/ Reason
  \/ Tailor
  \/ Alert
  \/ CvScore
  \/ Question
  \/ Rerun

Spec == Init /\ [][Next]_vars

(* ---------------- the scoring arithmetic on its own -------------------- *)
\* the run at the head of the scoring loop, one job to score, the summary's
\* vector any vector of the wide set
InitScore ==
  /\ pc = "score"
  /\ uploaded_file = TRUE
  /\ pressed = FALSE
  /\ cv_summary \in CvSummaries
  /\ search_keyword = DefaultKeyword
  /\ jobs = <<LivePosting(1)>>
  /\ cv_vec \in WideVecs
  /\ job_vec = NoVec
  /\ raw_match = 0
  /\ unsorted = <<>>
  /\ job_matches = <<>>
  /\ i = 0
  /\ alerts = <<>>
  /\ ui = <<>>
ScoreWide == ScoreJobFrom(WideVecs)
SpecScore == InitScore /\ [][ScoreWide]_vars

(* -------------------------------- claims ------------------------------- *)
\* the scoring loop has run to its end and line 177 has sorted the list
MatchingDone == i >= 1
\* the entry the last turn of the scoring loop stored
LastScored == unsorted[Len(unsorted)]
ShownSet == {ui[k] : k \in 1..Len(ui)}
LastShown == ui[Len(ui)]

\* C1: every stored match_pct lies in [0, 100], whatever the similarity in
\* [-1, 1] (here in hundredths of a percent: in 0..10000).
C1_ScoreInRange ==
  \A k \in 1..Len(unsorted) :
    unsorted[k].match_pct >= 0 /\ unsorted[k].match_pct <= 10000

\* C2: a failing completion or embedding call does not end the run: the run
\* is never aborted by an exception of ask_deepseek or of the embedder.
C2_ProviderFailureNotFatal ==
  ~(/\ pc = "aborted"
    /\ LastShown.text \in {"ask_deepseek", "SentenceTransformer", "embedder.encode"})

\* C3: with an empty or whitespace-only CV summary the matching step stores
\* no match result.
BlankSummaries == {"", "   "}
C3_BlankSummaryRejected ==
  (uploaded_file /\ cv_summary \in BlankSummaries) => unsorted = <<>>

\* C4: after the matching step job_matches is in non-increasing order of
\* match_pct.
C4_RankedDescending ==
  MatchingDone =>
    \A a \in 1..Len(job_matches) : \A b \in 1..Len(job_matches) :
      a < b => job_matches[a].match_pct >= job_matches[b].match_pct
\* a finished matching step whose sort changed the order
C4_Witness ==
  /\ MatchingDone
  /\ Len(job_matches) >= 2
  /\ job_matches # unsorted
  /\ job_matches[1].match_pct > job_matches[Len(job_matches)].match_pct

\* C5: the ranking is stable and a permutation of the input: the loop stored
\* one entry per job in input order, and for every score the entries of that
\* score are the same, in the same order, before and after the sort.
C5_StablePermutation ==
  MatchingDone =>
    /\ Len(unsorted) = Len(jobs)
    /\ Len(job_matches) = Len(jobs)
    /\ \A k \in 1..Len(jobs) : unsorted[k].job = jobs[k]
    /\ \A k \in 1..Len(jobs) :
         LET HasScore(e) == e.match_pct = unsorted[k].match_pct
         IN SelectSeq(job_matches, HasScore) = SelectSeq(unsorted, HasScore)
\* two different jobs tie behind a better one that came later in the input
C5_Witness ==
  /\ MatchingDone
  /\ Len(job_matches) = 3
  /\ job_matches # unsorted
  /\ job_matches[2].match_pct = job_matches[3].match_pct
  /\ job_matches[2].job # job_matches[3].job

\* C6: the stored score is min(raw * 1.2, 1.0) * 100 to two decimals: it is
\* 100 once raw * 1.2 reaches 1 (so for every raw >= 1/1.2), and otherwise
\* within half a hundredth of raw * 120.
C6_BoostedScore ==
  unsorted # <<>> =>
    /\ raw_match * 12 >= 100000 => LastScored.match_pct = 10000
    /\ raw_match >= 8334 => LastScored.match_pct = 10000
    /\ raw_match * 12 < 100000 =>
         /\ 10 * LastScored.match_pct - raw_match * 12 <= 5
         /\ raw_match * 12 - 10 * LastScored.match_pct <= 5
\* a similarity in [1/1.2, 1) was capped to 100
C6_Witness ==
  /\ unsorted # <<>>
  /\ raw_match >= 8334
  /\ raw_match < 10000
  /\ LastScored.match_pct = 10000

\* C7: a failure of the notification never ends the run: it is shown as a
\* warning, the run goes on with the next entry or the CV score, a run that
\* ends aborted was not aborted by the alert, and a run that ends has shown
\* the reasoning of every ranked job and the CV score.
Count(what) == Cardinality({k \in 1..Len(ui) : ui[k] = what})
C7_AlertFailureSwallowed ==
  /\ (pc = "aborted" => LastShown.text # "send_whatsapp_alert")
  /\ (ui # <<>> /\ LastShown = AlertFailed) =>
       /\ pc \in {"reason", "cv_score"}
       /\ alerts # <<>>
       /\ pc = "reason" => i = alerts[Len(alerts)].rank + 1
       /\ pc = "cv_score" => alerts[Len(alerts)].rank = Len(job_matches)
  /\ (pc = "done" /\ uploaded_file) =>
       /\ Count(Show("success", "reasoning")) = Len(job_matches)
       /\ Count(Show("markdown", "score_response")) = 1
\* a run that ended after a failed alert was followed by another job's
\* rendering
C7_Witness ==
  /\ pc = "done"
  /\ \E k \in 1..Len(ui) : \E m \in 1..Len(ui) :
       k < m /\ ui[k] = AlertFailed /\ ui[m] = Show("success", "reasoning")

\* C8: the job list handed to the matching step is never empty; when the
\* search gave nothing the fallback warning is shown and the list is the
\* three default postings built from the search keyword, otherwise it is the
\* search's result.
ReachedMatching ==
  pc \in {"embed", "score", "reason", "tailor", "alert", "cv_score", "qa", "done"}
    /\ uploaded_file
C8_FallbackNeverEmpty ==
  ReachedMatching =>
    /\ jobs # <<>>
    /\ IF NoLiveJobs \in ShownSet
       THEN /\ Len(jobs) = 3
            /\ \A k \in 1..3 : jobs[k].description.arg = search_keyword
            /\ \A k \in 1..3 : jobs[k].title.arg = Title(search_keyword)
            /\ <<jobs[1].url, jobs[2].url, jobs[3].url>> =
                 <<"https://example.com/job1", "https://example.com/job2",
                   "https://example.com/job3">>
            /\ <<jobs[1].location, jobs[2].location, jobs[3].location>> =
                 <<"Remote", "New York", "London">>
       ELSE jobs \in LiveResults
\* the matching step at work on the fallback list
C8_Witness ==
  /\ pc = "score"
  /\ NoLiveJobs \in ShownSet
  /\ Len(jobs) = 3
  /\ search_keyword # DefaultKeyword

\* C9: with a zero-magnitude CV vector or job vector the similarity fails and
\* no score is stored for the job.
IsZero(v) == v[1] = 0 /\ v[2] = 0
C9_ZeroVectorFails ==
  unsorted # <<>> => ~(IsZero(cv_vec) \/ IsZero(job_vec))

\* C10: an alert is tried for a ranked job exactly when its score is at least
\* 50, in rank order and once per job, so the alerted jobs are the first
\* Len(alerts) entries of the ranked list.
Rendered(r) == r < i \/ (r = i /\ pc \in {"cv_score", "qa", "done"})
C10_AlertsArePrefix ==
  /\ Len(alerts) <= Len(job_matches)
  /\ \A k \in 1..Len(alerts) :
       /\ alerts[k].rank = k
       /\ alerts[k].entry = job_matches[k]
       /\ job_matches[k].match_pct >= 5000
  /\ \A r \in 1..Len(job_matches) :
       (MatchingDone /\ Rendered(r) /\ job_matches[r].match_pct >= 5000)
         => r <= Len(alerts)
  /\ \A r \in 1..Len(job_matches) :
       (MatchingDone /\ job_matches[r].match_pct < 5000) => r > Len(alerts)
\* a finished run that alerted some of its jobs and not others
C10_Witness ==
  /\ pc = "done"
  /\ Len(alerts) >= 1
  /\ Len(alerts) < Len(job_matches)

====
